---- MODULE Spec2Model ----
(***************************************************************************)
(* Order workflow of the NepalGoods backend: order creation, status        *)
(* update, bulk status update, status query, workstation listing and       *)
(* payment intent creation, as implemented by src/server.js and by the     *)
(* three older variants of the server (src/unnamed/part_000..part_002).    *)
(*                                                                         *)
(* A handler runs synchronously up to its first await (validation, clock   *)
(* reads, building the collaborator call); the call is then in flight and  *)
(* other requests are served; the collaborator answers and the handler's   *)
(* continuation sends the response.  The Record Store (Airtable "Sales"    *)
(* table) and the Payment Gateway (Stripe) are the two collaborators.      *)
(***************************************************************************)
EXTENDS Integers, Sequences, FiniteSets, TLC

(* ------------------------------ bounds -------------------------------- *)
\* records the Sales table may hold
MaxRecords == 2
\* last value of the millisecond clock
MaxTime == 2
\* payment intents the gateway may hold
MaxIntents == 1
\* record ids in one bulk request
MaxBatch == 2

\* the callers; each has at most one request outstanding
Clients == {"c1", "c2"}
\* one caller alone: the operations without interleaving
OneClient == {"c1"}

VARIABLES
  variant,   \* which server file is running
  env,       \* process.env: which credentials are configured
  now,       \* the millisecond clock read by Date.now() / new Date()
  sales,     \* Record Store, table Sales: sequence of field maps; recordId = index
  gateway,   \* Payment Gateway: sequence of payment intents; id = IntentId(index)
  pending,   \* per caller: the collaborator call in flight, or Idle
  last       \* the response sent by the step just taken, or NoResponse

vars == <<variant, env, now, sales, gateway, pending, last>>

Variants == {"server", "part_000", "part_001", "part_002"}

(* --------------------------- JavaScript values ------------------------ *)
\* an object is a function from its own property names; a missing property
\* reads as undefined
Has(o, k) == k \in DOMAIN o

\* !!o[k] for a string or object property
Truthy(o, k) == Has(o, k) /\ o[k] # ""

\* !!o[k] for a numeric property
TruthyNum(o, k) == Has(o, k) /\ o[k] # 0

\* `${o[k]}` inside a template literal
Tpl(o, k) == IF Has(o, k) THEN o[k] ELSE "undefined"

\* o[k] || dflt for a string property
OrElse(o, k, dflt) == IF Truthy(o, k) THEN o[k] ELSE dflt

\* JSON.stringify drops properties whose value is undefined
Prop(name, o, k) == IF Has(o, k) THEN name :> o[k] ELSE <<>>

Without(o, K) == [k \in DOMAIN o \ K |-> o[k]]

Idle == [op |-> "idle"]
NoResponse == [op |-> "none"]

Busy == {c \in Clients : pending[c] # Idle}

(* ------------------------------- clock -------------------------------- *)
\* n successive reads of the clock inside one synchronous stretch of code:
\* the first at `now`, the clock possibly one millisecond further at each
\* later read
ClockReads(n) ==
  {s \in [1..n -> now..MaxTime] :
     /\ s[1] = now
     /\ \A i \in 1..(n-1) : s[i+1] \in {s[i], s[i] + 1}}

\* the same reads when the clock does not move during the handler
SameReads(n) == {[i \in 1..n |-> now]}

(* ----------------------------- responses ------------------------------ *)
\* res.status(http).json({success: false, error: error [+ detail]})
Failure(http, error, detail) ==
  [http |-> http, success |-> FALSE, error |-> error, detail |-> detail]

\* res.json({success: true, ...payload})
Success(payload) == [http |-> 200, success |-> TRUE] @@ payload

\* the response res sent to caller c for its request req, with what the
\* collaborator did for that request: its answer and the record ids it wrote
Respond(c, op, req, res, answer, wrote) ==
  [client |-> c, op |-> op, req |-> req, res |-> res, answer |-> answer, wrote |-> wrote]

\* the request was answered without a collaborator call
NoCall == [ok |-> FALSE, status |-> 0, body |-> "no call"]
Ok == [ok |-> TRUE, status |-> 200, body |-> ""]

(* --------------------------- Record Store ----------------------------- *)
\* a non-success answer of the Record Store that is not about the request:
\* the service is unavailable
Unavailable == [ok |-> FALSE, status |-> 503, body |-> "SERVICE_UNAVAILABLE: upstream diagnostic"]
\* the credentials were not sent or not accepted
Unauthorized == [ok |-> FALSE, status |-> 401, body |-> "AUTHENTICATION_REQUIRED: upstream diagnostic"]
\* a record id of the request does not exist
NotFound == [ok |-> FALSE, status |-> 404, body |-> "NOT_FOUND: upstream diagnostic"]

AirtableConfigured == env.AIRTABLE_TOKEN /\ env.AIRTABLE_BASE_ID

RecordIds == 1..(MaxRecords + 1)
Exists(id) == id \in 1..Len(sales)

(* ----------------------------- Payment Gateway ------------------------ *)
\* the identifier the gateway gives its n-th payment intent
IntentId(n) == "pi_" \o ToString(n)

\* payment references whose charge the gateway has confirmed
ConfirmedPayments ==
  {IntentId(i) : i \in {j \in 1..Len(gateway) : gateway[j].status = "succeeded"}}

StripeConfigured == env.STRIPE_SECRET_KEY

\* an error thrown by the gateway client
StripeError == [ok |-> FALSE, status |-> 402, body |-> "stripe raw diagnostic",
                type |-> "StripeInvalidRequestError", message |-> "stripe raw diagnostic"]

(* ------------------------------- inputs ------------------------------- *)
FullCustomer == [firstName |-> "Ann", lastName |-> "Lee", email |-> "ann@example.com"]

FullShipping == [address |-> "1 Main St", city |-> "Pokhara", state |-> "GA",
                 zip |-> "33700", country |-> "NP"]

Scarf == [name |-> "Scarf", quantity |-> 2, price |-> 15]

\* spec scenario: subtotal 30, shipping 5, tax 2, serviceFee 1, total 38
FullOrder == [items |-> <<Scarf>>, subtotal |-> 30, shipping |-> 5, tax |-> 2,
              serviceFee |-> 1, total |-> 38]

OrderSamples ==
  { [FullOrder EXCEPT !.items = <<>>],
    Without(FullOrder, {"items"}),
    Without(FullOrder, {"serviceFee"}),
    [FullOrder EXCEPT !.total = 40] }

PaymentSamples ==
  {[method |-> "card"]} \cup
  {[id |-> IntentId(n), method |-> "card"] : n \in 1..(MaxIntents + 1)}

CanonicalBody ==
  [customer |-> FullCustomer, shipping |-> FullShipping, order |-> FullOrder,
   payment |-> [id |-> IntentId(1), method |-> "card"]]

\* order requests: the canonical one, and it with one part changed or missing
OrderBodies ==
  {CanonicalBody}
  \cup {[CanonicalBody EXCEPT !.customer = Without(FullCustomer, {k})] : k \in DOMAIN FullCustomer}
  \cup {[CanonicalBody EXCEPT !.order = o] : o \in OrderSamples}
  \cup {[CanonicalBody EXCEPT !.payment = p] : p \in PaymentSamples}
  \cup {Without(CanonicalBody, {k}) : k \in DOMAIN CanonicalBody}

\* the random suffix of an order id, Math.random().toString(36).substr(2, 5)
Suffixes == {"K7Q2M", "ZZ9PX"}

\* amounts are counted in tenths of the minor currency unit, so that 1.5 is 15
Whole(n) == 10 * n

\* payment intent requests: amount missing, 0, -5, 1, 1.5, 100
IntentBodies ==
  {[currency |-> "usd"]} \cup
  {[amount |-> a, currency |-> "usd"] : a \in {0, Whole(-5), Whole(1), 15, Whole(100)}}

(* --------------------------- order creation --------------------------- *)
Reply(res) == [kind |-> "reply", res |-> res]
Call(call) == [kind |-> "call", call |-> call]

TypeErrorMessage == "Cannot read properties of undefined"

\* `NG${Date.now()}${Math.random().toString(36).substr(2, 5)}`.toUpperCase()
OrderId(t, sfx) == "NG" \o ToString(t) \o sfx

ShippingAddress(shipping) ==
  Tpl(shipping, "address") \o ", " \o Tpl(shipping, "city") \o ", " \o
  Tpl(shipping, "state") \o " " \o Tpl(shipping, "zip") \o ", " \o Tpl(shipping, "country")

ItemLine(item) ==
  ToString(item.quantity) \o "x " \o item.name \o
  (IF Truthy(item, "size") THEN " (Size: " \o item.size \o ")" ELSE "") \o
  " - $" \o ToString(item.price)

RECURSIVE JoinLines(_)
JoinLines(lines) ==
  IF lines = <<>> THEN ""
  ELSE IF Len(lines) = 1 THEN lines[1]
  ELSE lines[1] \o "\n" \o JoinLines(Tail(lines))

OrderItemsText(items) == JoinLines([i \in 1..Len(items) |-> ItemLine(items[i])])

ItemJson(item) ==
  "{name:" \o item.name \o ",quantity:" \o ToString(item.quantity) \o
  ",price:" \o ToString(item.price) \o "}"

RECURSIVE JoinComma(_)
JoinComma(parts) ==
  IF parts = <<>> THEN ""
  ELSE IF Len(parts) = 1 THEN parts[1]
  ELSE parts[1] \o "," \o JoinComma(Tail(parts))

\* JSON.stringify(order.items)
JsonStringify(items) ==
  "[" \o JoinComma([i \in 1..Len(items) |-> ItemJson(items[i])]) \o "]"

CustomerName(customer) == Tpl(customer, "firstName") \o " " \o Tpl(customer, "lastName")

\* the fields server.js writes; reads[1] is the clock read of the order id,
\* reads[2] of Order Date, reads[3] of Status Updated
ServerOrderFields(body, reads, sfx) ==
  [OrderID |-> OrderId(reads[1], sfx),
   CustomerName |-> CustomerName(body.customer),
   CustomerEmail |-> body.customer.email,
   CustomerPhone |-> OrElse(body.customer, "phone", "Not provided"),
   ShippingAddress |-> ShippingAddress(body.shipping),
   OrderItems |-> OrderItemsText(body.order.items),
   ServiceFee |-> IF TruthyNum(body.order, "serviceFee") THEN body.order.serviceFee ELSE 0,
   PaymentMethod |-> OrElse(body.payment, "method", "card"),
   StripePaymentID |-> OrElse(body.payment, "id", "Unknown"),
   OrderStatus |-> "Paid",
   OrderDate |-> reads[2],
   DeliveryNotes |-> OrElse(body.shipping, "notes", ""),
   OrderNotes |-> OrElse(body, "notes", ""),
   StatusUpdated |-> reads[3],
   AssignedTo |-> "",
   TrackingNumber |-> ""]
  @@ Prop("Subtotal", body.order, "subtotal") @@ Prop("Shipping", body.order, "shipping")
  @@ Prop("Tax", body.order, "tax") @@ Prop("Total", body.order, "total")

\* the fields the older variants write; reads[1] is the clock read of the
\* order id, reads[2] of Order Date; there is no Status Updated
VariantOrderFields(body, reads, sfx) ==
  [OrderID |-> OrderId(reads[1], sfx),
   CustomerName |-> CustomerName(body.customer),
   CustomerPhone |-> OrElse(body.customer, "phone", ""),
   ShippingAddress |-> ShippingAddress(body.shipping),
   StripePaymentID |-> OrElse(body.payment, "id", ""),
   OrderStatus |-> "Paid",
   OrderDate |-> reads[2],
   DeliveryNotes |-> OrElse(body.shipping, "notes", ""),
   OrderNotes |-> OrElse(body, "notes", "")]
  @@ Prop("CustomerEmail", body.customer, "email")
  @@ (IF Has(body.order, "items") THEN "OrderItems" :> JsonStringify(body.order.items) ELSE <<>>)
  @@ Prop("Subtotal", body.order, "subtotal") @@ Prop("Shipping", body.order, "shipping")
  @@ Prop("Tax", body.order, "tax") @@ Prop("ServiceFee", body.order, "serviceFee")
  @@ Prop("Total", body.order, "total") @@ Prop("PaymentMethod", body.payment, "method")

HasAllParts(body) ==
  Has(body, "customer") /\ Has(body, "shipping") /\ Has(body, "order") /\ Has(body, "payment")

HasCustomerInformation(customer) ==
  Truthy(customer, "firstName") /\ Truthy(customer, "lastName") /\ Truthy(customer, "email")

CreateRecordCall(fields, clock) ==
  Call([op |-> "createRecord", fields |-> fields, clock |-> clock])

\* server.js, POST /api/orders, up to the await of the Record Store call
ServerCreateOrder(body, reads, sfx) ==
  IF ~AirtableConfigured
    THEN Reply(Failure(500, "Order system not configured - Airtable credentials missing", ""))
  ELSE IF ~HasAllParts(body)
    THEN Reply(Failure(400, "Missing required order information", ""))
  ELSE IF ~HasCustomerInformation(body.customer)
    THEN Reply(Failure(400, "Missing customer information", ""))
  ELSE IF ~Has(body.order, "items")
    THEN Reply(Failure(500, "Failed to process order: ", TypeErrorMessage))
  ELSE CreateRecordCall(ServerOrderFields(body, reads, sfx), reads[3])

\* part_001, POST /api/orders
Part001CreateOrder(body, reads, sfx) ==
  IF ~AirtableConfigured
    THEN Reply(Failure(500, "Order system not configured", ""))
  ELSE IF ~HasAllParts(body)
    THEN Reply(Failure(400, "Missing required order information", ""))
  ELSE CreateRecordCall(VariantOrderFields(body, reads, sfx), reads[2])

\* part_000, POST /api/orders: part_001's handler behind a check of the Stripe key
Part000CreateOrder(body, reads, sfx) ==
  IF ~StripeConfigured
    THEN Reply(Failure(500, "Payment system not configured", ""))
  ELSE Part001CreateOrder(body, reads, sfx)

\* part_002, POST /api/orders: no validation; a missing part throws where it
\* is first dereferenced
Part002CreateOrder(body, reads, sfx) ==
  IF ~Has(body, "customer")
    THEN Reply(Failure(500, "Failed to create order: ", TypeErrorMessage))
  ELSE IF ~AirtableConfigured
    THEN Reply(Failure(500, "Server configuration error", ""))
  ELSE IF ~HasAllParts(body)
    THEN Reply(Failure(500, "Failed to create order: ", TypeErrorMessage))
  ELSE CreateRecordCall(VariantOrderFields(body, reads, sfx), reads[2])

CreateOrderHandler(body, reads, sfx) ==
  CASE variant = "server" -> ServerCreateOrder(body, reads, sfx)
    [] variant = "part_000" -> Part000CreateOrder(body, reads, sfx)
    [] variant = "part_001" -> Part001CreateOrder(body, reads, sfx)
    [] variant = "part_002" -> Part002CreateOrder(body, reads, sfx)

CreatesInFlight == Cardinality({c \in Clients : pending[c].op = "createRecord"})

\* POST /api/orders arrives from caller c; reads are the clock reads of the
\* handler, sfx the random suffix it draws; the table is let grow to size
\* records
CreateOrderWithin(size, c, body, reads, sfx) ==
  /\ pending[c] = Idle
  /\ LET out == CreateOrderHandler(body, reads, sfx) IN
     IF out.kind = "reply"
       THEN /\ last' = Respond(c, "createOrder", body, out.res, NoCall, <<>>)
            /\ UNCHANGED <<now, pending>>
       ELSE /\ Len(sales) + CreatesInFlight < size
            /\ pending' = [pending EXCEPT ![c] = out.call @@ [req |-> body]]
            /\ now' = out.call.clock
            /\ last' = NoResponse
  /\ UNCHANGED <<variant, env, sales, gateway>>

CreateOrder(c, body, reads, sfx) == CreateOrderWithin(MaxRecords, c, body, reads, sfx)

\* what the handler reports of a failed Record Store write
CreateOrderError(answer) ==
  CASE variant = "server" -> Failure(500, "Failed to process order: ", answer.body)
    [] variant = "part_002" -> Failure(500, "Failed to create order: ", answer.body)
    [] OTHER -> Failure(500, "Failed to process order: ",
                        "Airtable API error: " \o ToString(answer.status))

\* a success that always reports the id of the first record of the table
CreateOrderSuccessFirstRecord(call, recordId) ==
  Success([orderId |-> call.fields.OrderID, recordId |-> 1,
           message |-> "Order processed successfully"])

CreateOrderSuccess(call, recordId) ==
  IF variant = "server"
    THEN Success([orderId |-> call.fields.OrderID, recordId |-> recordId,
                  status |-> "Paid", message |-> "Order processed successfully"])
    ELSE Success([orderId |-> call.fields.OrderID, recordId |-> recordId,
                  message |-> IF variant = "part_002" THEN "Order created successfully"
                              ELSE "Order processed successfully"])

\* a handler whose catch block logs the Record Store's failure and sends
\* nothing
CompleteCreateOrderSilent(c) ==
  /\ pending[c].op = "createRecord"
  /\ \/ /\ sales' = Append(sales, pending[c].fields)
        /\ last' = Respond(c, "createOrder", pending[c].req,
                           CreateOrderSuccess(pending[c], Len(sales) + 1),
                           Ok, <<Len(sales) + 1>>)
     \/ /\ sales' = sales
        /\ last' = NoResponse
  /\ pending' = [pending EXCEPT ![c] = Idle]
  /\ UNCHANGED <<variant, env, now, gateway>>

\* the Record Store answers the create call of caller c; the handler responds
CompleteCreateOrder(c) ==
  /\ pending[c].op = "createRecord"
  /\ \/ /\ sales' = Append(sales, pending[c].fields)
        /\ last' = Respond(c, "createOrder", pending[c].req,
                           CreateOrderSuccess(pending[c], Len(sales) + 1),
                           Ok, <<Len(sales) + 1>>)
     \/ /\ sales' = sales
        /\ last' = Respond(c, "createOrder", pending[c].req, CreateOrderError(Unavailable),
                           Unavailable, <<>>)
  /\ pending' = [pending EXCEPT ![c] = Idle]
  /\ UNCHANGED <<variant, env, now, gateway>>

(* ------------------------ Record Store: update ------------------------ *)
\* PUT of one record: the fields sent replace the record
Replaced(table, rec) == [table EXCEPT ![rec.id] = rec.fields]

\* PATCH of one record: the fields sent overwrite, the others stay
Patched(table, rec) ==
  [table EXCEPT ![rec.id] = rec.fields @@ table[rec.id]]

RECURSIVE ApplyPatch(_, _)
ApplyPatch(table, recs) ==
  IF recs = <<>> THEN table ELSE ApplyPatch(Patched(table, Head(recs)), Tail(recs))

\* the records of a batch that precede its first record with an unknown id
RECURSIVE KnownPrefix(_)
KnownPrefix(recs) ==
  IF recs = <<>> \/ ~Exists(Head(recs).id) THEN <<>>
  ELSE <<Head(recs)>> \o KnownPrefix(Tail(recs))

Ids(recs) == [i \in 1..Len(recs) |-> recs[i].id]

\* what the Record Store may do with a batch update: answer and resulting
\* table.  Without credentials nothing is accepted; the service may be
\* unavailable; a batch naming an unknown record fails, and since the batch
\* is not transactional the records before the unknown one may have been
\* written; otherwise every record of the batch is written.
UpdateRecords(recs) ==
  IF ~AirtableConfigured
    THEN {[answer |-> Unauthorized, wrote |-> <<>>]}
  ELSE {[answer |-> Unavailable, wrote |-> <<>>]} \cup
       (IF \A i \in 1..Len(recs) : Exists(recs[i].id)
          THEN {[answer |-> Ok, wrote |-> recs]}
          ELSE {[answer |-> NotFound, wrote |-> <<>>],
                [answer |-> NotFound, wrote |-> KnownPrefix(recs)]})

(* ---------------------------- status update --------------------------- *)
\* server.js line 368
ValidStatuses ==
  {"Paid", "Processing", "Shipped", "Delivered", "Cancelled", "Refunded", "On Hold",
   "Awaiting Information"}

\* validStatuses.includes(status)
IncludesStatus(list, body) == Has(body, "status") /\ body.status \in list

\* a PATCH that sends Assigned To whether or not the request gives it
UpdateFieldsAssigning(body, t) ==
  [OrderStatus |-> body.status, StatusUpdated |-> t,
   AssignedTo |-> OrElse(body, "assignedTo", "")]
  @@ (IF Truthy(body, "trackingNumber") THEN "TrackingNumber" :> body.trackingNumber ELSE <<>>)
  @@ (IF Truthy(body, "notes") THEN "StatusNotes" :> body.notes ELSE <<>>)

\* a PATCH that sets the status and leaves Status Updated alone
UpdateFieldsUnstamped(body, t) ==
  [OrderStatus |-> body.status]
  @@ (IF Truthy(body, "trackingNumber") THEN "TrackingNumber" :> body.trackingNumber ELSE <<>>)
  @@ (IF Truthy(body, "assignedTo") THEN "AssignedTo" :> body.assignedTo ELSE <<>>)
  @@ (IF Truthy(body, "notes") THEN "StatusNotes" :> body.notes ELSE <<>>)

\* the fields of the PATCH: status and time always, the three others only
\* when the request gives a non-empty value
UpdateFields(body, t) ==
  [OrderStatus |-> body.status, StatusUpdated |-> t]
  @@ (IF Truthy(body, "trackingNumber") THEN "TrackingNumber" :> body.trackingNumber ELSE <<>>)
  @@ (IF Truthy(body, "assignedTo") THEN "AssignedTo" :> body.assignedTo ELSE <<>>)
  @@ (IF Truthy(body, "notes") THEN "StatusNotes" :> body.notes ELSE <<>>)

\* a handler that asks only for some status, not for one of the list
UpdateStatusHandlerAnyStatus(id, body) ==
  IF ~Has(body, "status")
    THEN Reply(Failure(400, "Invalid status. Must be one of: ", ""))
  ELSE Call([op |-> "updateStatus",
             records |-> <<[id |-> id, fields |-> [OrderStatus |-> body.status,
                                                   StatusUpdated |-> now]]>>])

\* a handler with a transition rule: a record that was delivered, cancelled
\* or refunded takes no other status
UpdateStatusHandlerFinal(id, body) ==
  IF ~IncludesStatus(ValidStatuses, body)
    THEN Reply(Failure(400, "Invalid status. Must be one of: ", ""))
  ELSE IF /\ Exists(id)
          /\ sales[id].OrderStatus \in {"Delivered", "Cancelled", "Refunded"}
          /\ sales[id].OrderStatus # body.status
    THEN Reply(Failure(400, "Invalid status transition", ""))
  ELSE Call([op |-> "updateStatus",
             records |-> <<[id |-> id, fields |-> UpdateFields(body, now)]>>])

\* PATCH /api/orders/:recordId/status, up to the await of the Record Store call
UpdateStatusHandler(id, body) ==
  IF ~IncludesStatus(ValidStatuses, body)
    THEN Reply(Failure(400, "Invalid status. Must be one of: ", ""))
  ELSE Call([op |-> "updateStatus",
             records |-> <<[id |-> id, fields |-> UpdateFields(body, now)]>>])

\* PATCH /api/orders/:recordId/status arrives from caller c
UpdateStatus(c, id, body) ==
  /\ variant = "server"
  /\ pending[c] = Idle
  /\ LET out == UpdateStatusHandler(id, body)
         req == [recordId |-> id, body |-> body] IN
     IF out.kind = "reply"
       THEN /\ last' = Respond(c, "updateStatus", req, out.res, NoCall, <<>>)
            /\ UNCHANGED pending
       ELSE /\ pending' = [pending EXCEPT ![c] = out.call @@ [req |-> req]]
            /\ last' = NoResponse
  /\ UNCHANGED <<variant, env, now, sales, gateway>>

\* the handler after the await: the response to the Record Store's answer
UpdateStatusResponse(req, answer) ==
  IF ~answer.ok
    THEN Failure(500, "Failed to update order status: ", answer.body)
    ELSE Success([message |-> "Order status updated to " \o req.body.status,
                  recordId |-> req.recordId,
                  status |-> req.body.status,
                  updatedAt |-> now]
                 @@ Prop("assignedTo", req.body, "assignedTo")
                 @@ Prop("trackingNumber", req.body, "trackingNumber"))

\* a handler that sends the PATCH again when the Record Store refuses it
CompleteUpdateStatusRetrying(c) ==
  /\ pending[c].op = "updateStatus"
  /\ \E done \in UpdateRecords(pending[c].records) :
       /\ sales' = ApplyPatch(sales, done.wrote)
       /\ IF done.answer.ok
            THEN /\ last' = Respond(c, "updateStatus", pending[c].req,
                                    UpdateStatusResponse(pending[c].req, done.answer),
                                    done.answer, Ids(done.wrote))
                 /\ pending' = [pending EXCEPT ![c] = Idle]
            ELSE /\ last' = NoResponse
                 /\ pending' = [pending EXCEPT ![c] = [attempt |-> 2] @@ pending[c]]
  /\ UNCHANGED <<variant, env, now, gateway>>

\* the Record Store answers the update of caller c; the handler responds
CompleteUpdateStatus(c) ==
  /\ pending[c].op = "updateStatus"
  /\ \E done \in UpdateRecords(pending[c].records) :
       /\ sales' = ApplyPatch(sales, done.wrote)
       /\ last' = Respond(c, "updateStatus", pending[c].req,
                          UpdateStatusResponse(pending[c].req, done.answer),
                          done.answer, Ids(done.wrote))
  /\ pending' = [pending EXCEPT ![c] = Idle]
  /\ UNCHANGED <<variant, env, now, gateway>>

(* ------------------------- bulk status update ------------------------- *)
\* server.js line 645
BulkValidStatuses ==
  {"Processing", "Shipped", "Delivered", "Cancelled", "Refunded", "On Hold"}

\* a JSON value that is an array is written [list |-> <<...>>], one that is a
\* string [string |-> "..."]
IsArray(v) == Has(v, "list")

\* recordIds.map(recordId => ({id, fields})): one clock read per record
BulkRecords(body, reads) ==
  [i \in 1..Len(body.recordIds.list) |->
     [id |-> body.recordIds.list[i],
      fields |-> [OrderStatus |-> body.status, StatusUpdated |-> reads[i]]
                 @@ (IF Truthy(body, "notes") THEN "StatusNotes" :> body.notes ELSE <<>>)]]

\* a bulk handler that asks only for some status, not for one of the list
BulkStatusUpdateHandlerAnyStatus(body, reads) ==
  IF ~Has(body, "recordIds")
    THEN Reply(Failure(500, "Bulk status update failed: ", TypeErrorMessage))
  ELSE IF ~IsArray(body.recordIds) \/ Len(body.recordIds.list) = 0
    THEN Reply(Failure(400, "No record IDs provided", ""))
  ELSE IF ~Has(body, "status")
    THEN Reply(Failure(400, "Invalid status. Must be one of: ", ""))
  ELSE Call([op |-> "bulkStatusUpdate", records |-> BulkRecords(body, reads),
             clock |-> reads[Len(body.recordIds.list)]])

\* POST /api/orders/bulk-status-update, up to the await of the Record Store call
BulkStatusUpdateHandler(body, reads) ==
  IF ~Has(body, "recordIds")
    THEN Reply(Failure(500, "Bulk status update failed: ", TypeErrorMessage))
  ELSE IF ~IsArray(body.recordIds) \/ Len(body.recordIds.list) = 0
    THEN Reply(Failure(400, "No record IDs provided", ""))
  ELSE IF ~IncludesStatus(BulkValidStatuses, body)
    THEN Reply(Failure(400, "Invalid status. Must be one of: ", ""))
  ELSE Call([op |-> "bulkStatusUpdate", records |-> BulkRecords(body, reads),
             clock |-> reads[Len(body.recordIds.list)]])

\* POST /api/orders/bulk-status-update arrives from caller c
BulkStatusUpdate(c, body, reads) ==
  /\ variant = "server"
  /\ pending[c] = Idle
  /\ LET out == BulkStatusUpdateHandler(body, reads) IN
     IF out.kind = "reply"
       THEN /\ last' = Respond(c, "bulkStatusUpdate", body, out.res, NoCall, <<>>)
            /\ UNCHANGED <<now, pending>>
       ELSE /\ pending' = [pending EXCEPT ![c] = out.call @@ [req |-> body]]
            /\ now' = out.call.clock
            /\ last' = NoResponse
  /\ UNCHANGED <<variant, env, sales, gateway>>

\* a handler that does not look at response.ok
BulkStatusUpdateResponseUnchecked(req, answer, wrote) ==
  Success([message |-> "Updated " \o ToString(Len(wrote)) \o " orders to " \o req.status,
           updatedCount |-> Len(wrote)])

\* the handler after the await; result.records are the records written
BulkStatusUpdateResponse(req, answer, wrote) ==
  IF ~answer.ok
    THEN Failure(500, "Bulk status update failed: ",
                 "Airtable API error: " \o ToString(answer.status) \o " - " \o answer.body)
    ELSE Success([message |-> "Updated " \o ToString(Len(wrote)) \o " orders to " \o req.status,
                  updatedCount |-> Len(wrote)])

\* the Record Store answers the batch of caller c; the handler responds
CompleteBulkStatusUpdate(c) ==
  /\ pending[c].op = "bulkStatusUpdate"
  /\ \E done \in UpdateRecords(pending[c].records) :
       /\ sales' = ApplyPatch(sales, done.wrote)
       /\ last' = Respond(c, "bulkStatusUpdate", pending[c].req,
                          BulkStatusUpdateResponse(pending[c].req, done.answer, done.wrote),
                          done.answer, Ids(done.wrote))
  /\ pending' = [pending EXCEPT ![c] = Idle]
  /\ UNCHANGED <<variant, env, now, gateway>>

(* --------------------------- get order status ------------------------- *)
\* JSON null
Null == "null"

\* what the Record Store may answer to the read of one record
ReadRecord(id) ==
  IF ~AirtableConfigured THEN {Unauthorized}
  ELSE {Unavailable} \cup (IF Exists(id) THEN {Ok} ELSE {NotFound})

\* GET /api/orders/:recordId/status arrives from caller c: there is no
\* validation, the handler goes straight to the Record Store
GetOrderStatus(c, id) ==
  /\ variant = "server"
  /\ pending[c] = Idle
  /\ pending' = [pending EXCEPT ![c] = [op |-> "getOrderStatus", req |-> [recordId |-> id]]]
  /\ last' = NoResponse
  /\ UNCHANGED <<variant, env, now, sales, gateway>>

\* the fields of the record the handler reports
OrderStatusProjection(fields) ==
  Prop("orderId", fields, "OrderID") @@ Prop("status", fields, "OrderStatus")
  @@ Prop("customerName", fields, "CustomerName") @@ Prop("total", fields, "Total")
  @@ Prop("orderDate", fields, "OrderDate") @@ Prop("statusUpdated", fields, "StatusUpdated")
  @@ [trackingNumber |-> OrElse(fields, "TrackingNumber", Null),
      assignedTo |-> OrElse(fields, "AssignedTo", Null)]

\* a handler that does not look at response.status
GetOrderStatusResponseNo404(req, answer) ==
  IF ~answer.ok
    THEN Failure(500, "Failed to fetch order status: ",
                 "Airtable API error: " \o ToString(answer.status))
    ELSE Success(OrderStatusProjection(sales[req.recordId]))

\* the handler after the await
GetOrderStatusResponse(req, answer) ==
  IF ~answer.ok
    THEN IF answer.status = 404
           THEN Failure(404, "Order not found", "")
           ELSE Failure(500, "Failed to fetch order status: ",
                        "Airtable API error: " \o ToString(answer.status))
    ELSE Success(OrderStatusProjection(sales[req.recordId]))

\* a read that leaves its mark in the record read
CompleteGetOrderStatusMarking(c) ==
  /\ pending[c].op = "getOrderStatus"
  /\ \E answer \in ReadRecord(pending[c].req.recordId) :
       /\ last' = Respond(c, "getOrderStatus", pending[c].req,
                          GetOrderStatusResponse(pending[c].req, answer), answer, <<>>)
       /\ sales' = IF answer.ok
                     THEN [sales EXCEPT ![pending[c].req.recordId] = ("LastRead" :> now) @@ @]
                     ELSE sales
  /\ pending' = [pending EXCEPT ![c] = Idle]
  /\ UNCHANGED <<variant, env, now, gateway>>

\* the Record Store answers the read of caller c; the handler responds
CompleteGetOrderStatus(c) ==
  /\ pending[c].op = "getOrderStatus"
  /\ \E answer \in ReadRecord(pending[c].req.recordId) :
       last' = Respond(c, "getOrderStatus", pending[c].req,
                       GetOrderStatusResponse(pending[c].req, answer), answer, <<>>)
  /\ pending' = [pending EXCEPT ![c] = Idle]
  /\ UNCHANGED <<variant, env, now, sales, gateway>>

(* -------------------------- workstation listing ----------------------- *)
\* the orders in which the Record Store may return the table for
\* sort[0][field]=Order Date, sort[0][direction]=desc: every arrangement of
\* the record ids in which Order Date never increases
SortedByOrderDateDesc ==
  {l \in [1..Len(sales) -> 1..Len(sales)] :
     /\ \A i, j \in 1..Len(sales) : i # j => l[i] # l[j]
     /\ \A i \in 1..(Len(sales) - 1) : sales[l[i]].OrderDate >= sales[l[i + 1]].OrderDate}

\* what the Record Store may answer to the listing: answer and record ids
ListRecords ==
  IF ~AirtableConfigured THEN {[answer |-> Unauthorized, ids |-> <<>>]}
  ELSE {[answer |-> Unavailable, ids |-> <<>>]}
       \cup {[answer |-> Ok, ids |-> l] : l \in SortedByOrderDateDesc}

\* GET /api/orders/workstation arrives from caller c
ListOrders(c) ==
  /\ variant = "server"
  /\ pending[c] = Idle
  /\ pending' = [pending EXCEPT ![c] = [op |-> "listOrders", req |-> [path |-> "workstation"]]]
  /\ last' = NoResponse
  /\ UNCHANGED <<variant, env, now, sales, gateway>>

\* record => ({recordId: record.id, orderId: record.fields['Order ID'], ...})
WorkstationProjection(id, fields) ==
  [recordId |-> id,
   trackingNumber |-> OrElse(fields, "TrackingNumber", ""),
   assignedTo |-> OrElse(fields, "AssignedTo", ""),
   statusNotes |-> OrElse(fields, "StatusNotes", ""),
   deliveryNotes |-> OrElse(fields, "DeliveryNotes", ""),
   orderNotes |-> OrElse(fields, "OrderNotes", "")]
  @@ Prop("orderId", fields, "OrderID") @@ Prop("customerName", fields, "CustomerName")
  @@ Prop("customerEmail", fields, "CustomerEmail")
  @@ Prop("customerPhone", fields, "CustomerPhone")
  @@ Prop("shippingAddress", fields, "ShippingAddress")
  @@ Prop("orderItems", fields, "OrderItems") @@ Prop("status", fields, "OrderStatus")
  @@ Prop("total", fields, "Total") @@ Prop("orderDate", fields, "OrderDate")
  @@ Prop("statusUpdated", fields, "StatusUpdated")

\* a projection that lists the records in the reverse of the order returned
ListOrdersResponseReversed(answer, ids) ==
  IF ~answer.ok
    THEN Failure(500, "Failed to fetch orders: ",
                 "Airtable API error: " \o ToString(answer.status))
    ELSE Success([orders |-> [i \in 1..Len(ids) |->
                    WorkstationProjection(ids[Len(ids) + 1 - i], sales[ids[Len(ids) + 1 - i]])]])

\* the handler after the await; ids are the records in the order returned
ListOrdersResponse(answer, ids) ==
  IF ~answer.ok
    THEN Failure(500, "Failed to fetch orders: ",
                 "Airtable API error: " \o ToString(answer.status))
    ELSE Success([orders |-> [i \in 1..Len(ids) |-> WorkstationProjection(ids[i], sales[ids[i]])]])

\* the Record Store answers the listing of caller c; the handler responds
CompleteListOrders(c) ==
  /\ pending[c].op = "listOrders"
  /\ \E got \in ListRecords :
       last' = Respond(c, "listOrders", pending[c].req,
                       ListOrdersResponse(got.answer, got.ids), got.answer, <<>>)
               @@ [returned |-> got.ids]
  /\ pending' = [pending EXCEPT ![c] = Idle]
  /\ UNCHANGED <<variant, env, now, sales, gateway>>

(* ------------------------ payment intent creation --------------------- *)
\* Math.round(amount)
MathRound(a) == Whole((a + 5) \div 10)

\* a test that leaves out the comparison with the least amount
InvalidAmountFalsyOnly(body, least) == ~TruthyNum(body, "amount")

\* !amount || amount < least
InvalidAmount(body, least) == ~TruthyNum(body, "amount") \/ body.amount < Whole(least)

CreateIntentCall(amount) == Call([op |-> "createIntent", amount |-> amount])

\* server.js and part_000, POST /api/create-payment-intent, up to the await
ServerCreatePaymentIntent(body) ==
  IF ~StripeConfigured THEN Reply(Failure(500, "Payment system not configured", ""))
  ELSE IF InvalidAmount(body, 1) THEN Reply(Failure(400, "Invalid amount", ""))
  ELSE CreateIntentCall(MathRound(body.amount))

\* part_001: the client object exists only when the key was set at start
Part001CreatePaymentIntent(body) ==
  IF ~StripeConfigured THEN Reply(Failure(500, "Payment system not configured properly", ""))
  ELSE IF InvalidAmount(body, 1) THEN Reply(Failure(400, "Invalid amount: ", ""))
  ELSE CreateIntentCall(body.amount)

\* part_002: a minimum of 50
Part002CreatePaymentIntent(body) ==
  IF ~StripeConfigured THEN Reply(Failure(500, "Payment system not configured", ""))
  ELSE IF InvalidAmount(body, 50) THEN Reply(Failure(400, "Invalid amount", ""))
  ELSE CreateIntentCall(body.amount)

CreatePaymentIntentHandler(body) ==
  CASE variant \in {"server", "part_000"} -> ServerCreatePaymentIntent(body)
    [] variant = "part_001" -> Part001CreatePaymentIntent(body)
    [] variant = "part_002" -> Part002CreatePaymentIntent(body)

IntentsInFlight == Cardinality({c \in Clients : pending[c].op = "createIntent"})

\* POST /api/create-payment-intent arrives from caller c
CreatePaymentIntent(c, body) ==
  /\ pending[c] = Idle
  /\ LET out == CreatePaymentIntentHandler(body) IN
     IF out.kind = "reply"
       THEN /\ last' = Respond(c, "createPaymentIntent", body, out.res, NoCall, <<>>)
            /\ UNCHANGED pending
       ELSE /\ Len(gateway) + IntentsInFlight < MaxIntents
            /\ pending' = [pending EXCEPT ![c] = out.call @@ [req |-> body]]
            /\ last' = NoResponse
  /\ UNCHANGED <<variant, env, now, sales, gateway>>

\* what the handler reports of an error thrown by the gateway client
CreatePaymentIntentError(error) ==
  IF variant = "part_001"
    THEN Failure(500, "Invalid Stripe request: " \o error.message, error.message)
    ELSE Failure(500, "Failed to create payment intent: ", error.message)

\* the gateway accepts only whole amounts of the minor unit
WholeAmount(a) == a % 10 = 0

\* the Payment Gateway answers the call of caller c; the handler responds
CompleteCreatePaymentIntent(c) ==
  /\ pending[c].op = "createIntent"
  /\ \/ /\ WholeAmount(pending[c].amount)
        /\ gateway' = Append(gateway, [amount |-> pending[c].amount,
                                       status |-> "requires_payment_method"])
        /\ last' = Respond(c, "createPaymentIntent", pending[c].req,
                     Success([clientSecret |-> IntentId(Len(gateway) + 1) \o "_secret",
                              paymentIntentId |-> IntentId(Len(gateway) + 1)]),
                     Ok, <<>>)
     \/ /\ gateway' = gateway
        /\ last' = Respond(c, "createPaymentIntent", pending[c].req,
                           CreatePaymentIntentError(StripeError), StripeError, <<>>)
  /\ pending' = [pending EXCEPT ![c] = Idle]
  /\ UNCHANGED <<variant, env, now, sales>>

\* the customer pays: the gateway confirms the charge of intent i
ConfirmPayment(i) ==
  /\ i \in 1..Len(gateway)
  /\ gateway[i].status = "requires_payment_method"
  /\ gateway' = [gateway EXCEPT ![i].status = "succeeded"]
  /\ last' = NoResponse
  /\ UNCHANGED <<variant, env, now, sales, pending>>

(* -------------------------------- clock ------------------------------- *)
Tick ==
  /\ now < MaxTime
  /\ now' = now + 1
  /\ last' = NoResponse
  /\ UNCHANGED <<variant, env, sales, gateway, pending>>

(* ---------------------------- specifications -------------------------- *)
\* every credential set, or exactly one missing
Environments ==
  {[AIRTABLE_TOKEN |-> t, AIRTABLE_BASE_ID |-> b, STRIPE_SECRET_KEY |-> k] :
     <<t, b, k>> \in {<<TRUE, TRUE, TRUE>>, <<FALSE, TRUE, TRUE>>,
                      <<TRUE, FALSE, TRUE>>, <<TRUE, TRUE, FALSE>>}}

Init ==
  /\ variant \in Variants
  /\ env \in Environments
  /\ now = 0
  /\ sales = <<>>
  /\ gateway = <<>>
  /\ pending = [c \in Clients |-> Idle]
  /\ last = NoResponse

\* server.js alone: the only file with the status operations
InitServer == Init /\ variant = "server"

OneSuffix == {"K7Q2M"}

\* the payment intent request of the canonical order: amount 100
CanonicalIntent == [amount |-> Whole(100), currency |-> "usd"]

\* Order creation in every variant, over every sample request, with the
\* payment it refers to; one caller, the clock at rest.
NextCreate ==
  \/ \E c \in OneClient, body \in OrderBodies, reads \in SameReads(3), sfx \in OneSuffix :
       CreateOrder(c, body, reads, sfx)
  \/ \E c \in OneClient : CompleteCreateOrder(c)
  \/ \E c \in OneClient : CreatePaymentIntent(c, CanonicalIntent)
  \/ \E c \in OneClient : CompleteCreatePaymentIntent(c)
  \/ \E i \in 1..MaxIntents : ConfirmPayment(i)

SpecCreate == Init /\ [][NextCreate]_vars

\* Order creation in every variant with the clock running, also between the
\* clock reads of one handler.
NextTime ==
  \/ \E c \in OneClient, reads \in ClockReads(3), sfx \in OneSuffix :
       CreateOrder(c, CanonicalBody, reads, sfx)
  \/ \E c \in OneClient : CompleteCreateOrder(c)
  \/ Tick

SpecTime == Init /\ [][NextTime]_vars

\* Payment intent creation in every variant, two callers.
NextPay ==
  \/ \E c \in Clients, body \in IntentBodies : CreatePaymentIntent(c, body)
  \/ \E c \in Clients : CompleteCreatePaymentIntent(c)
  \/ \E i \in 1..MaxIntents : ConfirmPayment(i)

SpecPay == Init /\ [][NextPay]_vars

\* status update requests: every status of the enumeration, strings outside
\* it, and no status at all
StatusBodies ==
  {[status |-> st] : st \in ValidStatuses \cup {"Bogus", "paid", ""}}
  \cup {[trackingNumber |-> "TRK1"]}

\* Status update over every status, on records created by the canonical
\* order; server.js, one caller, the clock at rest.
NextStatus ==
  \/ \E c \in OneClient, reads \in SameReads(3), sfx \in OneSuffix :
       CreateOrder(c, CanonicalBody, reads, sfx)
  \/ \E c \in OneClient : CompleteCreateOrder(c)
  \/ \E c \in OneClient, id \in RecordIds, body \in StatusBodies : UpdateStatus(c, id, body)
  \/ \E c \in OneClient : CompleteUpdateStatus(c)

SpecStatus == InitServer /\ [][NextStatus]_vars

\* status update requests to Shipped: without optional field, with each one
\* alone (a value, or the empty string), and with all three
FieldBodies ==
  LET B == [status |-> "Shipped"]
      V == [trackingNumber |-> "TRK1", assignedTo |-> "john", notes |-> "fragile"] IN
  {B, B @@ V}
  \cup {B @@ (k :> V[k]) : k \in DOMAIN V}
  \cup {B @@ (k :> "") : k \in DOMAIN V}

\* Status update over the optional fields; server.js, one caller, the clock
\* at rest.
NextFields ==
  \/ \E c \in OneClient, reads \in SameReads(3), sfx \in OneSuffix :
       CreateOrder(c, CanonicalBody, reads, sfx)
  \/ \E c \in OneClient : CompleteCreateOrder(c)
  \/ \E c \in OneClient, id \in RecordIds, body \in FieldBodies : UpdateStatus(c, id, body)
  \/ \E c \in OneClient : CompleteUpdateStatus(c)

SpecFields == InitServer /\ [][NextFields]_vars

\* lists of distinct record ids, at most MaxBatch long
IdLists ==
  {l \in UNION {[1..n -> RecordIds] : n \in 0..MaxBatch} :
     \A i, j \in 1..Len(l) : i # j => l[i] # l[j]}

RecordIdsValues ==
  {[list |-> l] : l \in IdLists} \cup {[string |-> "rec1"]}

\* bulk requests: every value of recordIds with an accepted status, with
\* and without a note; two lists with each status the bulk operation
\* excludes, with a string outside the enumeration, with the empty string
\* and with no status; and requests without recordIds
BulkBodies ==
  {[recordIds |-> r, status |-> "Shipped"] : r \in RecordIdsValues}
  \cup {[recordIds |-> r, status |-> "Shipped", notes |-> "batch note"] : r \in RecordIdsValues}
  \cup {[recordIds |-> [list |-> l], status |-> st] :
          l \in {<<1>>, <<1, 2>>},
          st \in (ValidStatuses \ BulkValidStatuses) \cup {"Bogus", ""}}
  \cup {[recordIds |-> [list |-> l]] : l \in {<<>>, <<1>>}}
  \cup {[status |-> st] : st \in {"Shipped", "Paid"}}

\* Bulk status update on records created by the canonical order; server.js,
\* one caller, the clock at rest.
NextBulk ==
  \/ \E c \in OneClient, reads \in SameReads(3), sfx \in OneSuffix :
       CreateOrder(c, CanonicalBody, reads, sfx)
  \/ \E c \in OneClient : CompleteCreateOrder(c)
  \/ \E c \in OneClient, body \in BulkBodies, reads \in SameReads(MaxBatch) :
       BulkStatusUpdate(c, body, reads)
  \/ \E c \in OneClient : CompleteBulkStatusUpdate(c)

SpecBulk == InitServer /\ [][NextBulk]_vars

\* Every operation on one canonical request each, in every environment;
\* one caller, the clock at rest.
NextConfig ==
  \/ \E c \in OneClient, reads \in SameReads(3), sfx \in OneSuffix :
       CreateOrder(c, CanonicalBody, reads, sfx)
  \/ \E c \in OneClient : CompleteCreateOrder(c)
  \/ \E c \in OneClient, id \in RecordIds : UpdateStatus(c, id, [status |-> "Shipped"])
  \/ \E c \in OneClient : CompleteUpdateStatus(c)
  \/ \E c \in OneClient, reads \in SameReads(MaxBatch) :
       BulkStatusUpdate(c, [recordIds |-> [list |-> <<1>>], status |-> "Shipped"], reads)
  \/ \E c \in OneClient : CompleteBulkStatusUpdate(c)
  \/ \E c \in OneClient, id \in RecordIds : GetOrderStatus(c, id)
  \/ \E c \in OneClient : CompleteGetOrderStatus(c)
  \/ \E c \in OneClient : ListOrders(c)
  \/ \E c \in OneClient : CompleteListOrders(c)
  \/ \E c \in OneClient : CreatePaymentIntent(c, CanonicalIntent)
  \/ \E c \in OneClient : CompleteCreatePaymentIntent(c)

SpecConfig == Init /\ [][NextConfig]_vars

\* order requests: the canonical one, one without customer, one without items
FewOrderBodies ==
  {CanonicalBody, Without(CanonicalBody, {"customer"}),
   [CanonicalBody EXCEPT !.order = Without(FullOrder, {"items"})]}

\* Order creation by two callers whose requests overlap; the clock at rest.
NextOrders ==
  \/ \E c \in Clients, body \in FewOrderBodies, reads \in SameReads(3), sfx \in OneSuffix :
       CreateOrder(c, body, reads, sfx)
  \/ \E c \in Clients : CompleteCreateOrder(c)

SpecOrders == Init /\ [][NextOrders]_vars

\* Order creation by two callers whose requests overlap, within one
\* millisecond or in different ones, with either random suffix drawn.
NextIds ==
  \/ \E c \in Clients, reads \in SameReads(3), sfx \in Suffixes :
       CreateOrder(c, CanonicalBody, reads, sfx)
  \/ \E c \in Clients : CompleteCreateOrder(c)
  \/ Tick

SpecIds == Init /\ [][NextIds]_vars

\* The workstation listing over a table of up to MaxRecords + 1 orders
\* created at the same or at different times; server.js, one caller.
NextList ==
  \/ \E c \in OneClient, reads \in SameReads(3), sfx \in OneSuffix :
       CreateOrderWithin(MaxRecords + 1, c, CanonicalBody, reads, sfx)
  \/ \E c \in OneClient : CompleteCreateOrder(c)
  \/ \E c \in OneClient : ListOrders(c)
  \/ \E c \in OneClient : CompleteListOrders(c)
  \/ Tick

SpecList == InitServer /\ [][NextList]_vars

\* bulk requests to Shipped with a note, over every list of distinct ids
NotedBulkBodies ==
  {[recordIds |-> [list |-> l], status |-> "Shipped", notes |-> "batch note"] : l \in IdLists}

\* Bulk status update with the clock running, also between the clock reads
\* of one handler; server.js, one caller.
NextBulkTime ==
  \/ \E c \in OneClient, reads \in SameReads(3), sfx \in OneSuffix :
       CreateOrder(c, CanonicalBody, reads, sfx)
  \/ \E c \in OneClient : CompleteCreateOrder(c)
  \/ \E c \in OneClient, body \in NotedBulkBodies, reads \in ClockReads(MaxBatch) :
       BulkStatusUpdate(c, body, reads)
  \/ \E c \in OneClient : CompleteBulkStatusUpdate(c)
  \/ Tick

SpecBulkTime == InitServer /\ [][NextBulkTime]_vars

\* status update requests: a bare status, and one with the three optional fields
TwoStatusBodies ==
  {[status |-> "Delivered"],
   [status |-> "Shipped", trackingNumber |-> "TRK1", assignedTo |-> "john", notes |-> "fragile"]}

\* bulk requests to Processing with a note: one record, two records, and a
\* list naming a record that may not exist
ProcessingBulkBodies ==
  {[recordIds |-> [list |-> l], status |-> "Processing", notes |-> "batch note"] :
     l \in {<<1>>, <<2, 1>>, <<1, MaxRecords + 1>>}}

\* Status updates and bulk status updates, in any sequence, on orders created
\* by the canonical request; server.js, one caller, the clock at rest.
NextUpdates ==
  \/ \E c \in OneClient, reads \in SameReads(3), sfx \in OneSuffix :
       CreateOrder(c, CanonicalBody, reads, sfx)
  \/ \E c \in OneClient : CompleteCreateOrder(c)
  \/ \E c \in OneClient, id \in RecordIds, body \in TwoStatusBodies : UpdateStatus(c, id, body)
  \/ \E c \in OneClient : CompleteUpdateStatus(c)
  \/ \E c \in OneClient, body \in ProcessingBulkBodies, reads \in SameReads(MaxBatch) :
       BulkStatusUpdate(c, body, reads)
  \/ \E c \in OneClient : CompleteBulkStatusUpdate(c)

SpecUpdates == InitServer /\ [][NextUpdates]_vars

\* bulk requests to Processing: one record, and two records
StampBulkBodies ==
  {[recordIds |-> [list |-> l], status |-> "Processing"] : l \in {<<1>>, <<2, 1>>}}

\* Status update and bulk status update with the clock running, also between
\* the clock reads of one handler; server.js, one caller.
NextStamp ==
  \/ \E c \in OneClient, reads \in SameReads(3), sfx \in OneSuffix :
       CreateOrder(c, CanonicalBody, reads, sfx)
  \/ \E c \in OneClient : CompleteCreateOrder(c)
  \/ \E c \in OneClient, id \in RecordIds : UpdateStatus(c, id, [status |-> "Shipped"])
  \/ \E c \in OneClient : CompleteUpdateStatus(c)
  \/ \E c \in OneClient, body \in StampBulkBodies, reads \in ClockReads(MaxBatch) :
       BulkStatusUpdate(c, body, reads)
  \/ \E c \in OneClient : CompleteBulkStatusUpdate(c)
  \/ Tick

SpecStamp == InitServer /\ [][NextStamp]_vars


\* status update requests: two statuses of the enumeration, one of them
\* outside the bulk list, and a string outside the enumeration
MixStatusBodies ==
  {[status |-> st] : st \in {"Delivered", "Awaiting Information", "Bogus"}}

\* bulk requests: an accepted status, a status of the enumeration the bulk
\* operation excludes, and a string outside the enumeration
MixBulkBodies ==
  {[recordIds |-> [list |-> <<1, 2>>], status |-> "Cancelled"],
   [recordIds |-> [list |-> <<1>>], status |-> "Paid"],
   [recordIds |-> [list |-> <<2, 1>>], status |-> "Bogus"]}

\* Creations, status updates and bulk status updates by two callers whose
\* requests overlap; every variant creates, server.js updates; the clock at
\* rest.
NextMix ==
  \/ \E c \in Clients, reads \in SameReads(3), sfx \in OneSuffix :
       CreateOrder(c, CanonicalBody, reads, sfx)
  \/ \E c \in Clients : CompleteCreateOrder(c)
  \/ \E c \in Clients, id \in RecordIds, body \in MixStatusBodies : UpdateStatus(c, id, body)
  \/ \E c \in Clients : CompleteUpdateStatus(c)
  \/ \E c \in Clients, body \in MixBulkBodies, reads \in SameReads(MaxBatch) :
       BulkStatusUpdate(c, body, reads)
  \/ \E c \in Clients : CompleteBulkStatusUpdate(c)

SpecMix == Init /\ [][NextMix]_vars

\* status update requests to two different statuses
RaceStatusBodies == {[status |-> "Shipped"], [status |-> "Delivered"]}

\* Status updates and bulk status updates by two callers whose requests
\* overlap, with the clock running; server.js.  The callers name record 1
\* once it exists: a record's id is issued by the Record Store when the
\* record is created.
NextRace ==
  \/ \E c \in OneClient, reads \in SameReads(3), sfx \in OneSuffix :
       CreateOrder(c, CanonicalBody, reads, sfx)
  \/ \E c \in OneClient : CompleteCreateOrder(c)
  \/ \E c \in Clients, body \in RaceStatusBodies : Exists(1) /\ UpdateStatus(c, 1, body)
  \/ \E c \in Clients : CompleteUpdateStatus(c)
  \/ \E c \in Clients, reads \in SameReads(MaxBatch) :
       /\ Exists(1)
       /\ BulkStatusUpdate(c, [recordIds |-> [list |-> <<1>>], status |-> "Processing"], reads)
  \/ \E c \in Clients : CompleteBulkStatusUpdate(c)
  \/ Tick

SpecRace == InitServer /\ [][NextRace]_vars

\* bulk requests: one record, a status outside the list, and no recordIds
AnswerBulkBodies ==
  {[recordIds |-> [list |-> <<1>>], status |-> "Shipped"],
   [recordIds |-> [list |-> <<1>>], status |-> "Bogus"],
   [status |-> "Shipped"]}

\* Every operation in every variant and environment, on requests that take
\* each path of its handler: rejected as invalid, refused for a missing
\* credential, throwing on a missing part of the body, failing at the
\* collaborator, succeeding; one caller, the clock at rest.
NextAnswer ==
  \/ \E c \in OneClient, body \in FewOrderBodies, reads \in SameReads(3), sfx \in OneSuffix :
       CreateOrder(c, body, reads, sfx)
  \/ \E c \in OneClient : CompleteCreateOrder(c)
  \/ \E c \in OneClient, id \in RecordIds, body \in MixStatusBodies : UpdateStatus(c, id, body)
  \/ \E c \in OneClient : CompleteUpdateStatus(c)
  \/ \E c \in OneClient, body \in AnswerBulkBodies, reads \in SameReads(MaxBatch) :
       BulkStatusUpdate(c, body, reads)
  \/ \E c \in OneClient : CompleteBulkStatusUpdate(c)
  \/ \E c \in OneClient, id \in RecordIds : GetOrderStatus(c, id)
  \/ \E c \in OneClient : CompleteGetOrderStatus(c)
  \/ \E c \in OneClient : ListOrders(c)
  \/ \E c \in OneClient : CompleteListOrders(c)
  \/ \E c \in OneClient, body \in IntentBodies : CreatePaymentIntent(c, body)
  \/ \E c \in OneClient : CompleteCreatePaymentIntent(c)

\* every collaborator call in flight is eventually answered: the fetch or
\* the gateway call returns or fails, and the handler resumes after its await
CallsReturn ==
  \A c \in OneClient :
    /\ WF_vars(CompleteCreateOrder(c))
    /\ WF_vars(CompleteUpdateStatus(c))
    /\ WF_vars(CompleteBulkStatusUpdate(c))
    /\ WF_vars(CompleteGetOrderStatus(c))
    /\ WF_vars(CompleteListOrders(c))
    /\ WF_vars(CompleteCreatePaymentIntent(c))

SpecAnswer == Init /\ [][NextAnswer]_vars /\ CallsReturn

(* ------------------------------- claims ------------------------------- *)
\* Vocabulary of the claims.  `last` is the response sent by the step just
\* taken, with the answer of the collaborator it rests on (NoCall if none).
Sent(resp, op) == resp.op = op

\* a request rejected as invalid without any collaborator call
IsValidationError(resp) ==
  resp.res.http = 400 /\ ~resp.res.success /\ resp.answer = NoCall

\* a request refused because a credential is missing, without any collaborator call
IsConfigurationError(resp) ==
  resp.res.http = 500 /\ ~resp.res.success /\ resp.answer = NoCall

EightStatuses ==
  {"Paid", "Processing", "Shipped", "Delivered", "Cancelled", "Refunded", "On Hold",
   "Awaiting Information"}

SixStatuses == {"Processing", "Shipped", "Delivered", "Cancelled", "Refunded", "On Hold"}

StatusOutside(list, body) == ~Has(body, "status") \/ body.status \notin list

\* C1: a status update whose status is not one of the eight values (or is
\* missing) is answered with a validation error in the step that receives it,
\* no Record Store call is issued and the stored records are unchanged.
C1_InvalidStatusRejected ==
  [][ (Sent(last', "updateStatus") /\ StatusOutside(EightStatuses, last'.req.body))
        => /\ IsValidationError(last')
           /\ pending' = pending
           /\ sales' = sales ]_vars

\* C1 witness: an invalid status was rejected for a record that exists
C1_Witness ==
  /\ Sent(last, "updateStatus")
  /\ StatusOutside(EightStatuses, last.req.body)
  /\ Exists(last.req.recordId)
  /\ last.res.http = 400

\* C2: every record written by order creation has status Paid and a Status
\* Updated timestamp equal to its Order Date.
C2_StatusUpdatedEqualsOrderDate ==
  \A i \in 1..Len(sales) :
    /\ sales[i].OrderStatus = "Paid"
    /\ Has(sales[i], "StatusUpdated")
    /\ sales[i].StatusUpdated = sales[i].OrderDate

\* C3: every stored order carries a payment reference whose charge the
\* Payment Gateway has confirmed.
C3_PaidOnlyIfConfirmed ==
  \A i \in 1..Len(sales) : sales[i].StripePaymentID \in ConfirmedPayments

\* C4: a status update with a valid status for a record the Record Store does
\* not know is answered with a failure of another kind (status code or error
\* text) than the one that answers the other Record Store failures.
C4_UnknownRecordIsNotFound ==
  (Sent(last, "updateStatus") /\ last.answer = NotFound)
    => LET generic == UpdateStatusResponse(last.req, Unavailable) IN
       /\ ~last.res.success
       /\ <<last.res.http, last.res.error>> # <<generic.http, generic.error>>

\* the identifier list of a bulk request is the empty list
EmptyIdList(body) ==
  Has(body, "recordIds") /\ IsArray(body.recordIds) /\ body.recordIds.list = <<>>

BulkInvalid(body) == EmptyIdList(body) \/ StatusOutside(SixStatuses, body)

\* C5: a bulk status update with an empty identifier list, or with a status
\* outside the six the bulk operation allows, is answered with a validation
\* error, and no Record Store call is issued for it.
C5_BulkRejectsEmptyAndOutside ==
  /\ (Sent(last, "bulkStatusUpdate") /\ BulkInvalid(last.req)) => IsValidationError(last)
  /\ \A c \in Clients :
       pending[c].op = "bulkStatusUpdate" => ~BulkInvalid(pending[c].req)

\* C6: a bulk status update whose batch the Record Store did not apply to
\* every listed record is answered with one failure; a success is answered
\* only when every listed record has the target status.
C6_PartialBatchIsFailure ==
  (Sent(last, "bulkStatusUpdate") /\ last.answer # NoCall)
    => LET ids == last.req.recordIds.list IN
       /\ last.wrote # ids => (~last.res.success /\ last.res.http = 500)
       /\ last.res.success =>
            \A i \in 1..Len(ids) :
              Exists(ids[i]) /\ sales[ids[i]].OrderStatus = last.req.status

\* C6 witness: the Record Store wrote some but not all records of the batch
\* and the operation answered a failure
C6_Witness ==
  /\ Sent(last, "bulkStatusUpdate")
  /\ last.answer # NoCall
  /\ 0 < Len(last.wrote)
  /\ Len(last.wrote) < Len(last.req.recordIds.list)
  /\ ~last.res.success

\* the request property that feeds each optional field of the record
RequestProperty ==
  [TrackingNumber |-> "trackingNumber", AssignedTo |-> "assignedTo", StatusNotes |-> "notes"]

Supplied(body, k) ==
  k \in DOMAIN RequestProperty /\ Has(body, RequestProperty[k]) /\ body[RequestProperty[k]] # ""

\* field k is the same in records r and s: absent in both or equal in both
SameField(r, s, k) == (Has(r, k) <=> Has(s, k)) /\ (Has(r, k) => r[k] = s[k])

\* C7: a successful status update leaves every other record as it was, and
\* in its record every field other than status and Status Updated either was
\* supplied non-empty by the request and has the supplied value, or is as it
\* was before.
C7_OnlySuppliedFieldsChange ==
  [][ (Sent(last', "updateStatus") /\ last'.res.success)
        => LET id == last'.req.recordId
               body == last'.req.body IN
           /\ Len(sales') = Len(sales)
           /\ \A j \in 1..Len(sales) : j # id => sales'[j] = sales[j]
           /\ \A k \in (DOMAIN sales[id] \cup DOMAIN sales'[id])
                         \ {"OrderStatus", "StatusUpdated"} :
                IF Supplied(body, k)
                  THEN Has(sales'[id], k) /\ sales'[id][k] = body[RequestProperty[k]]
                  ELSE SameField(sales[id], sales'[id], k) ]_vars

\* C7 witness: an update that supplied a tracking number and no assignee
\* succeeded on a record that already had an assignee, and the assignee is
\* still there
C7_Witness ==
  /\ Sent(last, "updateStatus")
  /\ last.res.success
  /\ Has(last.req.body, "trackingNumber")
  /\ ~Has(last.req.body, "assignedTo")
  /\ sales[last.req.recordId].AssignedTo = "john"
  /\ sales[last.req.recordId].TrackingNumber = "TRK1"

LacksCustomerInformation(body) ==
  \/ ~Has(body, "customer")
  \/ \E k \in {"firstName", "lastName", "email"} : ~Truthy(body.customer, k)

\* every credential the handlers ask for is configured
Configured == AirtableConfigured /\ StripeConfigured

\* C8: with the credentials configured, an order request without customer,
\* or whose customer has no first name, last name or email, is answered with
\* a validation error, and no Record Store call is issued for it.
C8_CustomerRequired ==
  /\ (Configured /\ Sent(last, "createOrder") /\ LacksCustomerInformation(last.req))
       => IsValidationError(last)
  /\ \A c \in Clients :
       pending[c].op = "createRecord" => ~LacksCustomerInformation(pending[c].req)

ItemsEmptyOrAbsent(body) ==
  ~Has(body, "order") \/ ~Has(body.order, "items") \/ body.order.items = <<>>

\* C9: with the credentials configured, an order request whose item list is
\* empty or absent is answered with a validation error, no Record Store call
\* is issued for it, and no stored order has an empty item list.
C9_ItemsRequired ==
  /\ (Configured /\ Sent(last, "createOrder") /\ ItemsEmptyOrAbsent(last.req))
       => IsValidationError(last)
  /\ \A c \in Clients :
       pending[c].op = "createRecord" => ~ItemsEmptyOrAbsent(pending[c].req)
  /\ \A i \in 1..Len(sales) :
       Has(sales[i], "OrderItems") /\ sales[i].OrderItems \notin {"", "[]"}

AmountNotPositive(body) == ~Has(body, "amount") \/ body.amount <= 0

\* no Payment Gateway call is in flight for a request without positive amount
NoIntentCallWithoutAmount ==
  \A c \in Clients : pending[c].op = "createIntent" => ~AmountNotPositive(pending[c].req)

\* C10 as stated: a payment intent request whose amount is missing, zero or
\* negative is answered with a validation error, and no Payment Gateway call
\* is issued for it.
C10_AsStated ==
  /\ (Sent(last, "createPaymentIntent") /\ AmountNotPositive(last.req))
       => IsValidationError(last)
  /\ NoIntentCallWithoutAmount

\* C10: a payment intent request whose amount is missing, zero or negative is
\* answered without a Payment Gateway call: with a validation error when the
\* gateway key is configured, with a configuration error when it is not.
C10_InvalidAmountRejected ==
  /\ (Sent(last, "createPaymentIntent") /\ AmountNotPositive(last.req))
       => IF StripeConfigured THEN IsValidationError(last) ELSE IsConfigurationError(last)
  /\ NoIntentCallWithoutAmount

\* C10 witness: with the key configured, amount -5 was rejected
C10_Witness ==
  /\ Sent(last, "createPaymentIntent")
  /\ StripeConfigured
  /\ Has(last.req, "amount") /\ last.req.amount = Whole(-5)
  /\ last.res.http = 400

\* the amount of the request is a positive whole number of minor units
PositiveInteger(body) == Has(body, "amount") /\ body.amount > 0 /\ body.amount % Whole(1) = 0

\* C11: with the gateway key configured, a payment intent request with a
\* positive integer amount is passed to the Payment Gateway with exactly that
\* amount, whatever its size, and the gateway's client secret and identifier
\* are returned.
C11_ExactAmountDelegated ==
  /\ (Sent(last, "createPaymentIntent") /\ StripeConfigured /\ PositiveInteger(last.req))
       => /\ last.answer # NoCall
          /\ last.answer = Ok =>
               /\ last.res.success
               /\ last.res.paymentIntentId = IntentId(Len(gateway))
               /\ last.res.clientSecret = IntentId(Len(gateway)) \o "_secret"
               /\ gateway[Len(gateway)].amount = last.req.amount
  /\ \A c \in Clients :
       (pending[c].op = "createIntent" /\ PositiveInteger(pending[c].req))
         => pending[c].amount = pending[c].req.amount

\* the calls to the Record Store, and the operations that make them
RecordStoreCalls ==
  {"createRecord", "updateStatus", "bulkStatusUpdate", "getOrderStatus", "listOrders"}

RecordStoreOperations ==
  {"createOrder", "updateStatus", "bulkStatusUpdate", "getOrderStatus", "listOrders"}

\* C12: while the Record Store credentials are absent no call to the Record
\* Store is in flight and every operation that depends on it is answered
\* with a configuration error; the same for the Payment Gateway key and
\* payment intent creation.
C12_ConfigurationErrorBeforeCall ==
  /\ ~AirtableConfigured =>
       /\ \A c \in Clients : pending[c].op \notin RecordStoreCalls
       /\ last.op \in RecordStoreOperations => IsConfigurationError(last)
  /\ ~StripeConfigured =>
       /\ \A c \in Clients : pending[c].op # "createIntent"
       /\ Sent(last, "createPaymentIntent") => IsConfigurationError(last)

\* the kind of a failure as the caller can tell it: status code and error text
FailureKind(res) == <<res.http, res.error>>

\* the failures with which order creation answers the sample requests
\* without calling the Record Store: validation errors and exceptions
FailuresWithoutWrite ==
  LET outs == {CreateOrderHandler(b, [i \in 1..3 |-> now], "K7Q2M") : b \in OrderBodies} IN
  {out.res : out \in {o \in outs : o.kind = "reply"}}

\* C13: the failure that answers a failed Record Store write in order
\* creation is of a kind of its own: no request that fails without a write
\* gets a failure of the same kind.
C13_WriteFailureHasOwnKind ==
  (Sent(last, "createOrder") /\ last.answer # NoCall /\ ~last.answer.ok)
    => /\ ~last.res.success
       /\ \A res \in FailuresWithoutWrite : FailureKind(res) # FailureKind(last.res)

\* C14: order creation answers success only in the step in which the Record
\* Store appends one record, and then reports that record's order id and its
\* record id; it answers failure with neither identifier, and leaves the
\* table as it was, when the write fails or is not attempted.
C14_SuccessOnlyWithRecord ==
  [][ Sent(last', "createOrder")
        => IF last'.res.success
             THEN /\ last'.answer = Ok
                  /\ Len(sales') = Len(sales) + 1
                  /\ SubSeq(sales', 1, Len(sales)) = sales
                  /\ last'.res.recordId = Len(sales')
                  /\ last'.res.orderId = sales'[Len(sales')].OrderID
             ELSE /\ sales' = sales
                  /\ ~Has(last'.res, "orderId")
                  /\ ~Has(last'.res, "recordId") ]_vars

\* C14 witness: after one order was stored, the write of a second one failed
\* and was answered with a failure; the table holds the first order only
C14_Witness ==
  /\ Sent(last, "createOrder")
  /\ last.answer = Unavailable
  /\ ~last.res.success
  /\ Len(sales) = 1

\* C15: no two stored orders carry the same order id.
C15_OrderIdsDiffer ==
  \A i, j \in 1..Len(sales) : i # j => sales[i].OrderID # sales[j].OrderID

\* C16: the workstation listing answers with the records in the order in
\* which the Record Store returned them, each record once, and that order is
\* by Order Date descending: a record created later is listed earlier.
C16_ListedNewestFirst ==
  (Sent(last, "listOrders") /\ last.res.success)
    => LET orders == last.res.orders IN
       /\ [i \in 1..Len(orders) |-> orders[i].recordId] = last.returned
       /\ \A i, j \in 1..Len(orders) :
            /\ i # j => orders[i].recordId # orders[j].recordId
            /\ orders[i].orderDate = sales[orders[i].recordId].OrderDate
            /\ sales[orders[i].recordId].OrderDate < sales[orders[j].recordId].OrderDate
                 => j < i

\* C16 witness: three orders created at t1 < t2 < t3 are listed [t3, t2, t1]
C16_Witness ==
  /\ Sent(last, "listOrders")
  /\ last.res.success
  /\ Len(sales) = 3
  /\ sales[1].OrderDate < sales[2].OrderDate
  /\ sales[2].OrderDate < sales[3].OrderDate
  /\ [i \in 1..3 |-> last.res.orders[i].recordId] = <<3, 2, 1>>

\* C17: get order status answers not-found when the Record Store does not
\* know the record, the record's stored status, order id, customer name,
\* total and timestamps when it returns the record, and a failure that is
\* not a not-found when the Record Store fails otherwise.
C17_StatusOrNotFound ==
  Sent(last, "getOrderStatus")
    => LET id == last.req.recordId IN
       IF last.answer.ok
         THEN /\ Exists(id)
              /\ last.res.success
              /\ last.res.status = sales[id].OrderStatus
              /\ last.res.orderId = sales[id].OrderID
              /\ last.res.customerName = sales[id].CustomerName
              /\ last.res.total = sales[id].Total
              /\ last.res.orderDate = sales[id].OrderDate
              /\ last.res.statusUpdated = sales[id].StatusUpdated
       ELSE IF last.answer = NotFound
         THEN /\ ~Exists(id)
              /\ ~last.res.success
              /\ FailureKind(last.res) = <<404, "Order not found">>
       ELSE /\ ~last.res.success
            /\ last.res.http = 500
            /\ last.res.error # "Order not found"

\* C17 witness: the table holds an order, and the status of a record it does
\* not hold was asked for and answered not-found
C17_Witness ==
  /\ Sent(last, "getOrderStatus")
  /\ Len(sales) > 0
  /\ ~Exists(last.req.recordId)
  /\ last.res.http = 404

\* C18: after a successful bulk status update with a note, every listed
\* record has the target status and the note, and all listed records have
\* the same Status Updated timestamp.
C18_BatchStampedAlike ==
  (Sent(last, "bulkStatusUpdate") /\ last.res.success /\ Truthy(last.req, "notes"))
    => LET ids == last.req.recordIds.list IN
       \A i, j \in 1..Len(ids) :
         /\ sales[ids[i]].OrderStatus = last.req.status
         /\ sales[ids[i]].StatusNotes = last.req.notes
         /\ sales[ids[i]].StatusUpdated = sales[ids[j]].StatusUpdated

\* C19: every stored order has its four amounts and a total that is their
\* sum, and the order just stored has the total its request submitted.
C19_TotalIsSum ==
  /\ \A i \in 1..Len(sales) :
       /\ \A k \in {"Subtotal", "Shipping", "Tax", "ServiceFee", "Total"} : Has(sales[i], k)
       /\ sales[i].Total
            = sales[i].Subtotal + sales[i].Shipping + sales[i].Tax + sales[i].ServiceFee
  /\ (Sent(last, "createOrder") /\ last.res.success)
       => /\ Has(last.req.order, "total")
          /\ sales[last.res.recordId].Total = last.req.order.total

\* the fields of an order record that are written at creation only
CreationFields ==
  {"OrderID", "OrderDate", "ShippingAddress", "OrderItems", "CustomerName", "CustomerEmail",
   "CustomerPhone", "Subtotal", "Shipping", "Tax", "ServiceFee", "Total"}

\* C20: no step changes the order id, Order Date, shipping address, item
\* snapshot, customer fields or amounts of a record that exists.
C20_CreationFieldsKept ==
  [][ /\ Len(sales') >= Len(sales)
      /\ \A i \in 1..Len(sales) : \A k \in CreationFields :
           SameField(sales[i], sales'[i], k) ]_vars

\* C20 witness: a record that a status update gave a tracking number and a
\* later bulk update set to Processing still has the shipping address of its
\* creation
C20_Witness ==
  /\ Sent(last, "bulkStatusUpdate")
  /\ last.res.success
  /\ sales[1].OrderStatus = "Processing"
  /\ sales[1].TrackingNumber = "TRK1"
  /\ sales[1].ShippingAddress = ShippingAddress(FullShipping)

\* C21: no step removes a record; a step that changes an existing record is
\* the Record Store write of a status update or of a bulk status update; the
\* steps of get order status, of the workstation listing and of payment
\* intent creation leave the table as it is.
C21_OnlyUpdatesMutate ==
  [][ /\ Len(sales') >= Len(sales)
      /\ SubSeq(sales', 1, Len(sales)) # sales
           => last'.op \in {"updateStatus", "bulkStatusUpdate"}
      /\ (\/ last'.op \in {"getOrderStatus", "listOrders", "createPaymentIntent"}
          \/ \E c \in Clients : /\ pending'[c] # pending[c]
                                /\ pending'[c].op \in {"getOrderStatus", "listOrders",
                                                       "createIntent"})
           => sales' = sales ]_vars

\* C21 witness: the status of a record that an update had set to Shipped was
\* read and reported
C21_Witness ==
  /\ Sent(last, "getOrderStatus")
  /\ last.res.success
  /\ last.res.status = "Shipped"
  /\ sales[last.req.recordId].OrderStatus = "Shipped"

\* the texts that carry the raw body of a collaborator's answer: the body
\* alone, or after the status line the handlers put before it
RawDetail(answer) ==
  {answer.body, "Airtable API error: " \o ToString(answer.status) \o " - " \o answer.body}

\* C22: the failure that answers a failed collaborator call does not carry
\* the raw body or message of the collaborator's answer.
C22_NoRawDetail ==
  (last.op # "none" /\ last.answer # NoCall /\ ~last.answer.ok)
    => /\ ~last.res.success
       /\ last.res.detail \notin RawDetail(last.answer)

\* C23: a status update to any of the eight statuses, whatever status the
\* record has (the same one and the final ones included), is not answered
\* before the Record Store is called, and when the Record Store applies it
\* the request succeeds and the record has the requested status.
C23_EveryTransitionAccepted ==
  [][ /\ (Sent(last', "updateStatus") /\ ~StatusOutside(EightStatuses, last'.req.body))
           => /\ last'.answer # NoCall
              /\ (last'.res.success <=> last'.answer.ok)
      /\ \A c \in Clients :
           (pending[c].op = "updateStatus" /\ pending'[c] = Idle /\ last'.answer.ok)
             => sales'[pending[c].req.recordId].OrderStatus = pending[c].req.body.status ]_vars

\* C23 witness: the update of a delivered order back to Paid has been
\* accepted and its Record Store call is in flight
C23_Witness ==
  \E c \in Clients :
    /\ pending[c].op = "updateStatus"
    /\ pending[c].req.body.status = "Paid"
    /\ Exists(pending[c].req.recordId)
    /\ sales[pending[c].req.recordId].OrderStatus = "Delivered"

UpdateOperations == {"updateStatus", "bulkStatusUpdate"}

\* the call of a status operation carries, for each record, a status
\* together with a Status Updated read from the clock while the request
\* was handled (between time t and time u)
StampedBetween(call, t, u) ==
  \A k \in 1..Len(call.records) :
    /\ Has(call.records[k].fields, "OrderStatus")
    /\ Has(call.records[k].fields, "StatusUpdated")
    /\ call.records[k].fields.StatusUpdated \in t..u

\* C24: every Record Store call of a status update or a bulk status update
\* carries, for each record, its status together with a Status Updated read
\* from the clock while the request was handled; and every record such a
\* call writes has, after the write, the status and the Status Updated of
\* that call.
C24_StatusWrittenWithTimestamp ==
  [][ \A c \in Clients :
        /\ (pending[c] = Idle /\ pending'[c].op \in UpdateOperations)
             => StampedBetween(pending'[c], now, now')
        /\ (pending[c].op \in UpdateOperations /\ pending'[c] = Idle)
             => \A k \in 1..Len(pending[c].records) :
                  LET rec == pending[c].records[k] IN
                  IF \E j \in 1..Len(last'.wrote) : last'.wrote[j] = rec.id
                    THEN /\ sales'[rec.id].OrderStatus = rec.fields.OrderStatus
                         /\ Has(rec.fields, "StatusUpdated")
                         /\ sales'[rec.id].StatusUpdated = rec.fields.StatusUpdated
                    ELSE Exists(rec.id) => sales'[rec.id] = sales[rec.id] ]_vars

\* C24 witness: a status operation succeeded and every record it wrote has
\* a Status Updated later than its Order Date
C24_Witness ==
  /\ last.op \in UpdateOperations
  /\ last.res.success
  /\ last.wrote # <<>>
  /\ \A j \in 1..Len(last.wrote) :
       sales[last.wrote[j]].StatusUpdated > sales[last.wrote[j]].OrderDate

\* C25: the step in which a collaborator answers a call ends the handler:
\* the caller's call leaves the calls in flight, no new call takes its place,
\* and when the answer is a failure the response sent is a failure.
C25_FailedCallNotRepeated ==
  [][ /\ \A c \in Clients :
           (pending[c] # Idle /\ pending'[c] # pending[c])
             => /\ pending'[c] = Idle
                /\ last'.op # "none" /\ last'.client = c /\ last'.answer # NoCall
      /\ (last'.op # "none" /\ last'.answer # NoCall /\ ~last'.answer.ok)
           => /\ ~last'.res.success
              /\ pending[last'.client] # Idle
              /\ pending'[last'.client] = Idle ]_vars

\* C25 witness: the Record Store refused a status update and the handler
\* answered a failure with no call left in flight
C25_Witness ==
  /\ Sent(last, "updateStatus")
  /\ last.answer = Unavailable
  /\ ~last.res.success /\ last.res.http = 500
  /\ pending[last.client] = Idle

\* property k of the response and field f of the record agree: absent in
\* both, or present in both with the same value
Reports(res, k, rec, f) == (Has(res, k) <=> Has(rec, f)) /\ (Has(res, k) => res[k] = rec[f])

\* C26: the success response of a status update reports the record as stored
\* after the update: status, assignedTo, trackingNumber and updatedAt are the
\* stored Order Status, Assigned To, Tracking Number and Status Updated.
C26_ResponseReportsStored ==
  (Sent(last, "updateStatus") /\ last.res.success)
    => LET rec == sales[last.req.recordId] IN
       /\ Reports(last.res, "status", rec, "OrderStatus")
       /\ Reports(last.res, "assignedTo", rec, "AssignedTo")
       /\ Reports(last.res, "trackingNumber", rec, "TrackingNumber")
       /\ Reports(last.res, "updatedAt", rec, "StatusUpdated")

\* C27: every stored order has a status, and it is one of the eight values.
C27_StoredStatusInEnumeration ==
  \A i \in 1..Len(sales) :
    Has(sales[i], "OrderStatus") /\ sales[i].OrderStatus \in EightStatuses

\* C27 witness: one caller's status operation has succeeded on a record
\* while another caller's status operation on the same record is in flight
C27_Witness ==
  /\ last.op \in UpdateOperations
  /\ last.res.success
  /\ \E c \in Clients \ {last.client}, j \in 1..Len(last.wrote) :
       /\ pending[c].op \in UpdateOperations
       /\ \E k \in 1..Len(pending[c].records) : pending[c].records[k].id = last.wrote[j]
       /\ sales[last.wrote[j]].OrderStatus # "Paid"

\* C28: in every step the Status Updated of every stored order does not
\* decrease, and it is never earlier than the order's Order Date.
C28_StatusUpdatedNeverDecreases ==
  [][ \A i \in 1..Len(sales) :
        /\ sales'[i].StatusUpdated >= sales[i].StatusUpdated
        /\ sales'[i].StatusUpdated >= sales'[i].OrderDate ]_vars

\* the identifier list of a bulk request is absent or is not a list
NoIdList(body) == ~Has(body, "recordIds") \/ ~IsArray(body.recordIds)

\* C29: a bulk status update whose recordIds is absent or is not a list is
\* answered with the validation error that answers an empty list, and no
\* Record Store call is issued for it.
C29_MissingIdListIsValidationError ==
  /\ (Sent(last, "bulkStatusUpdate") /\ NoIdList(last.req))
       => /\ IsValidationError(last)
          /\ last.res = Failure(400, "No record IDs provided", "")
  /\ \A c \in Clients :
       pending[c].op = "bulkStatusUpdate" => ~NoIdList(pending[c].req)

\* a response is sent to caller c in the step
Answered(c) == last'.op # "none" /\ last'.client = c

\* C30: every request is answered exactly once.  A request is answered in
\* the step that receives it or it leaves a collaborator call in flight,
\* never both; while its call is in flight nothing is sent to its caller;
\* the step that takes the call out of flight sends the one response; and
\* every call in flight is eventually out of flight.
C30_ExactlyOneResponse ==
  /\ [][ \A c \in Clients :
           /\ (pending[c] = Idle /\ pending'[c] # Idle) => ~Answered(c)
           /\ (pending[c] = Idle /\ Answered(c)) => pending'[c] = Idle
           /\ (pending[c] # Idle /\ pending'[c] = pending[c]) => ~Answered(c)
           /\ (pending[c] # Idle /\ pending'[c] # pending[c])
                => (pending'[c] = Idle /\ Answered(c)) ]_vars
  /\ \A c \in Clients : (pending[c] # Idle) ~> (pending[c] = Idle)

\* C30 witness: a request whose body lacks the part the handler reads has
\* been answered by the handler's catch block
C30_Witness ==
  /\ last.op \in {"createOrder", "bulkStatusUpdate"}
  /\ last.answer = NoCall
  /\ last.res.http = 500
  /\ last.res.detail = TypeErrorMessage
  /\ pending[last.client] = Idle

====
